---- MODULE Spec2Model ----
(***************************************************************************)
(* ServerRequest::MakeRequest (src/src/server_request.cpp): one HTTPS      *)
(* request to the server, made through the connected transport, or, when   *)
(* none is connected, directly (web port, then 443) and then through each  *)
(* temporary transport that needs no handshake.                            *)
(*                                                                         *)
(* The state is one MakeRequest call: its arguments, its locals, the       *)
(* position of control, the transports created by the registry, the stop   *)
(* signal, and the sequence of calls made on the collaborators (log).      *)
(* HTTPSRequest, TransportConnection, TransportRegistry and StopSignal are *)
(* collaborators: what they return or throw is chosen nondeterministically.*)
(***************************************************************************)
EXTENDS Naturals, Integers, Sequences, FiniteSets, TLC

\* Largest number of transports TransportRegistry::NewAll produces.
MaxTransports == 2

\* The standard HTTPS port pushed onto the port list after the web port.
HttpsPort == 443

\* The web port of the header's description ("8080, then 443").
DefaultWebPort == 8080

WebPorts == {DefaultWebPort, HttpsPort}

\* requestPath: the assert only requires a non-null pointer.
RequestPaths == {"", "/status"}

\* A transport as the code sees it: IsHandshakeRequired(sessionInfo) and
\* IsServerRequestTunnelled().
TransportKinds == [hs : BOOLEAN, tunnelled : BOOLEAN]

\* What TransportRegistry::NewAll can produce: a fresh instance per registered
\* transport, in registration order.
Catalogs == UNION {[1..n -> TransportKinds] : n \in 0..MaxTransports}

\* currentTransport: a null pointer, or a transport with its IsConnected() and
\* IsServerRequestTunnelled(); type is its position in the registry.
NoTransport == [present |-> FALSE, connected |-> FALSE, tunnelled |-> FALSE, type |-> 0]

CurrentTransports ==
    {NoTransport} \cup
    [present : {TRUE}, connected : BOOLEAN, tunnelled : BOOLEAN, type : 1..MaxTransports]

VARIABLES
    pc,               \* position of control in MakeRequest
    stopSignalled,    \* stopInfo.stopSignal is signalled
    adhocIfNeeded,    \* argument
    currentTransport, \* argument (and the state of the transport it points to)
    webPort,          \* sessionInfo.GetWebPort()
    requestPath,      \* argument
    response,         \* out argument: 0 is empty, n the response of log[n]
    port_iter,        \* index into ports
    catalog,          \* the instances NewAll created, by id 1..Len(catalog)
    tstate,           \* per instance: "new", "connected", "disconnected", "deleted"
    tempTransports,   \* ids of the eligible instances, in order
    transport_iter,   \* index into tempTransports
    connection,       \* the transport the TransportConnection in scope holds, or 0
    success,          \* local
    pending,          \* how the loop body is being left
    result,           \* how the call ended
    log               \* calls made on the collaborators, in order

vars == <<pc, stopSignalled, adhocIfNeeded, currentTransport, webPort, requestPath,
          response, port_iter, catalog, tstate, tempTransports, transport_iter,
          connection, success, pending, result, log>>

\* One entry of the log, a call on a collaborator: the operation, the transport instance it is
\* made on (0: none, or currentTransport), the port and the use-local-proxy
\* flag of a request (or the boolean a query returns), and how the call ended.
Ev(op, t, port, flag, ret) ==
    [op |-> op, t |-> t, port |-> port, flag |-> flag, ret |-> ret]

PortsReversed == <<HttpsPort, webPort>>

\* The ports tried directly, in order.
Ports == <<webPort, HttpsPort>>

Init ==
    /\ pc = "idle"
    /\ stopSignalled = FALSE
    /\ adhocIfNeeded = FALSE
    /\ currentTransport = NoTransport
    /\ webPort = DefaultWebPort
    /\ requestPath = "/status"
    /\ response = 0
    /\ port_iter = 1
    /\ catalog = <<>>
    /\ tstate = <<>>
    /\ tempTransports = <<>>
    /\ transport_iter = 1
    /\ connection = 0
    /\ success = FALSE
    /\ pending = "none"
    /\ result = "none"
    /\ log = <<>>

\* The stop signal is raised by another thread, at any moment; the log records
\* when, relative to the calls the request makes.
SignalStop ==
    /\ pc # "done"
    /\ ~stopSignalled
    /\ stopSignalled' = TRUE
    /\ log' = Append(log, Ev("Signal", 0, 0, FALSE, ""))
    /\ UNCHANGED <<pc, adhocIfNeeded, currentTransport, webPort, requestPath,
                   response, port_iter, catalog, tstate, tempTransports,
                   transport_iter, connection, success, pending, result>>

\* What one HTTPSRequest::MakeRequest call can do: return true, return false,
\* or throw (StopSignal's abort once the stop signal is raised, or another error).
RequestOutcomes ==
    {"Success", "Failed", "Error"} \cup (IF stopSignalled THEN {"Abort"} ELSE {})

\* What TransportConnection::Connect can do: return, or throw ("Throws on
\* failure": TryNextServer, the stop signal's abort, or another error).
ConnectOutcomes ==
    {"Connected", "TryNextServer", "Error"} \cup (IF stopSignalled THEN {"Abort"} ELSE {})

\* How the call ends when a collaborator's call ends as o outside the try block.
Outcome(o) ==
    CASE o = "Success" -> "Success"
      [] o = "Failed"  -> "Failed"
      [] o = "Abort"   -> "Cancelled"
      [] OTHER         -> "Error"

IsTransportPresent(cur) == cur.present

\* bool transportConnected = currentTransport && currentTransport->IsConnected();
IsTransportConnected(cur) == cur.present /\ cur.connected

CheckSignalNeverThrows == FALSE

\* stopInfo.stopSignal->CheckSignal(stopInfo.stopReasons, true): throws if signaled.
CheckSignalThrows == stopSignalled

AssertFailsOnEmpty(path) == path = ""

\* assert(requestPath): fails for a null pointer only, and every path of
\* RequestPaths is a non-null pointer.
AssertFails(path) == FALSE

\* The calls made on entry: CheckSignal, and, if it does not throw and
\* currentTransport is not null, currentTransport->IsConnected().
EntryCalls(cur) ==
    <<Ev("CheckSignal", 0, 0, stopSignalled,
         IF CheckSignalThrows THEN "Abort" ELSE "")>>
    \o (IF ~CheckSignalThrows /\ cur.present
          THEN <<Ev("IsConnected", 0, 0, cur.connected, "")>> ELSE <<>>)

\* Entry of MakeRequest up to the choice of the branch: CheckSignal throws if
\* signalled; the assert; response.clear(); then the connected branch, the bail-out, or
\* the direct attempts.
Enter(adhoc, cur, port, path) ==
    /\ pc = "idle"
    /\ adhocIfNeeded' = adhoc
    /\ currentTransport' = cur
    /\ webPort' = port
    /\ requestPath' = path
    /\ response' = IF CheckSignalThrows THEN response ELSE 0
    /\ port_iter' = 1
    /\ IF CheckSignalThrows
         THEN pc' = "done" /\ result' = "Cancelled"
         ELSE IF AssertFails(path)
           THEN pc' = "done" /\ result' = "Misuse"
           ELSE IF IsTransportConnected(cur)
             THEN pc' = "ConnectedRequest" /\ result' = result
             ELSE IF ~adhoc
               THEN pc' = "done" /\ result' = "Failed"
               ELSE pc' = "DirectRequest" /\ result' = result
    /\ log' = log \o EntryCalls(cur)
    /\ UNCHANGED <<stopSignalled, catalog, tstate, tempTransports, transport_iter,
                   connection, success, pending>>

\* The simple case: one request through the connected transport, whose result
\* is returned. (failOver: a false result goes on to the direct attempts;
\* owned: the transport is disconnected afterwards. The code does neither.)
ConnectedRequestAs(failOver, owned) ==
    /\ pc = "ConnectedRequest"
    /\ \E o \in RequestOutcomes :
         /\ log' = Append(log, Ev("RequestViaCurrent", 0, webPort,
                                  currentTransport.tunnelled, o))
                    \o (IF owned THEN <<Ev("Disconnect", 0, 0, FALSE, "")>> ELSE <<>>)
         /\ response' = IF o = "Success" THEN Len(log) + 1 ELSE response
         /\ IF failOver /\ o = "Failed"
              THEN pc' = "DirectRequest" /\ result' = result
              ELSE pc' = "done" /\ result' = Outcome(o)
    /\ currentTransport' = IF owned
                             THEN [currentTransport EXCEPT !.connected = FALSE]
                             ELSE currentTransport
    /\ UNCHANGED <<stopSignalled, adhocIfNeeded, webPort,
                   requestPath, port_iter, catalog, tstate, tempTransports,
                   transport_iter, connection, success, pending>>

ConnectedRequestFailsOver == ConnectedRequestAs(TRUE, FALSE)

ConnectedRequestOwnsTransport == ConnectedRequestAs(FALSE, TRUE)

ConnectedRequest == ConnectedRequestAs(FALSE, FALSE)

\* One iteration of the loop over ports: a direct request, not through the
\* local proxy; true returns, false moves on to the next port. (polled: the
\* iteration begins with a check of the stop signal. The code makes none.)
DirectRequestAs(polled) ==
    /\ pc = "DirectRequest"
    /\ \E o \in IF polled /\ stopSignalled THEN {"Polled"} ELSE RequestOutcomes :
         /\ log' = IF o = "Polled" THEN log
                    ELSE Append(log, Ev("RequestDirect", 0, Ports[port_iter], FALSE, o))
         /\ response' = IF o = "Success" THEN Len(log) + 1 ELSE response
         /\ IF o = "Failed"
              THEN /\ port_iter' = port_iter + 1
                   /\ pc' = IF port_iter + 1 > Len(Ports)
                              THEN "GetTempTransports" ELSE "DirectRequest"
                   /\ result' = result
              ELSE /\ port_iter' = port_iter
                   /\ pc' = "done"
                   /\ result' = IF o = "Polled" THEN "Cancelled" ELSE Outcome(o)
    /\ UNCHANGED <<stopSignalled, adhocIfNeeded, currentTransport, webPort,
                   requestPath, catalog, tstate, tempTransports, transport_iter,
                   connection, success, pending>>

DirectRequestPolled == DirectRequestAs(TRUE)

DirectRequest == DirectRequestAs(FALSE)

\* Iterating over all transports, as the note above GetTempTransports considers.
EligibleAll(cat, i) == TRUE

\* The condition under which GetTempTransports keeps instance i of cat.
Eligible(cat, i) == ~cat[i].hs

\* The ids GetTempTransports pushes onto o_tempTransports, in registry order.
EligibleIds(cat) ==
    SelectSeq([i \in 1..Len(cat) |-> i], LAMBDA i : Eligible(cat, i))

\* The calls the loop of GetTempTransports makes from instance i on: the
\* IsHandshakeRequired query, and the delete of an instance that is not kept.
RECURSIVE FilterCalls(_, _)
FilterCalls(cat, i) ==
    IF i > Len(cat) THEN <<>>
    ELSE <<Ev("IsHandshakeRequired", i, 0, cat[i].hs, "")>>
         \o (IF Eligible(cat, i) THEN <<>> ELSE <<Ev("delete", i, 0, FALSE, "")>>)
         \o FilterCalls(cat, i + 1)

\* GetTempTransports(sessionInfo, tempTransports), then the loop's entry.
GetTempTransports ==
    /\ pc = "GetTempTransports"
    /\ \E cat \in Catalogs :
         /\ currentTransport.present => currentTransport.type <= Len(cat)
         /\ catalog' = cat
         /\ tempTransports' = EligibleIds(cat)
         /\ tstate' = [i \in 1..Len(cat) |->
                          IF Eligible(cat, i) THEN "new" ELSE "deleted"]
         /\ log' = log \o <<Ev("NewAll", 0, 0, FALSE, "")>> \o FilterCalls(cat, 1)
         /\ pc' = IF Len(EligibleIds(cat)) = 0 THEN "Return" ELSE "Connect"
    /\ transport_iter' = 1
    /\ success' = FALSE
    /\ UNCHANGED <<stopSignalled, adhocIfNeeded, currentTransport, webPort,
                   requestPath, response, port_iter, connection, pending, result>>

\* A loop whose handler is missing: TryNextServer leaves the call like any error.
OnConnectThrowPropagates(o) ==
    CASE o = "TryNextServer" -> "Error"
      [] o = "Polled"        -> "Abort"
      [] OTHER               -> o

\* How the loop body is left when Connect does not return: TryNextServer is
\* caught ("pass and continue"), anything else passes through.
OnConnectThrow(o) ==
    CASE o = "TryNextServer" -> "continue"
      [] o = "Polled"        -> "Abort"
      [] OTHER               -> o

\* connection.Connect(...) on the candidate at transport_iter. (polled: the
\* iteration begins with a check of the stop signal. The code makes none.)
ConnectAs(polled) ==
    /\ pc = "Connect"
    /\ LET t == tempTransports[transport_iter] IN
       \E o \in IF polled /\ stopSignalled THEN {"Polled"} ELSE ConnectOutcomes :
         /\ log' = IF o = "Polled" THEN log
                    ELSE Append(log, Ev("Connect", t, 0, FALSE, o))
         /\ IF o = "Connected"
              THEN /\ tstate' = [tstate EXCEPT ![t] = "connected"]
                   /\ connection' = t
                   /\ pending' = pending
                   /\ pc' = "TempRequest"
              ELSE /\ tstate' = tstate
                   /\ connection' = connection
                   /\ pending' = OnConnectThrow(o)
                   /\ pc' = "LeaveScope"
    /\ UNCHANGED <<stopSignalled, adhocIfNeeded, currentTransport, webPort,
                   requestPath, response, port_iter, catalog, tempTransports,
                   transport_iter, success, result>>

ConnectPolled == ConnectAs(TRUE)

Connect == ConnectAs(FALSE)

\* The request through the connected temporary transport: at the web port,
\* through the local proxy if the transport says so; true sets success and
\* breaks out of the loop. (noBreak: success is set without the break;
\* alwaysProxy: the local proxy is used whatever the transport says. The code
\* does neither.)
TempRequestAs(noBreak, alwaysProxy) ==
    /\ pc = "TempRequest"
    /\ LET t == tempTransports[transport_iter] IN
       \E o \in RequestOutcomes :
         /\ log' = Append(log, Ev("RequestViaTemp", t, webPort,
                                  alwaysProxy \/ catalog[t].tunnelled, o))
         /\ response' = IF o = "Success" THEN Len(log) + 1 ELSE response
         /\ success' = IF o = "Success" THEN TRUE ELSE success
         /\ pending' = CASE o = "Success" -> IF noBreak THEN "continue" ELSE "break"
                         [] o = "Failed"  -> "continue"
                         [] OTHER         -> o
    /\ pc' = "LeaveScope"
    /\ UNCHANGED <<stopSignalled, adhocIfNeeded, currentTransport, webPort,
                   requestPath, port_iter, catalog, tstate, tempTransports,
                   transport_iter, connection, result>>

TempRequestNoBreak == TempRequestAs(TRUE, FALSE)

TempRequestAlwaysProxy == TempRequestAs(FALSE, TRUE)

TempRequest == TempRequestAs(FALSE, FALSE)

\* Leaving the loop body's scope (end of the iteration, break, or an exception
\* passing through): the TransportConnection cleans up the transport connection.
LeaveScopeWhen(cleanup) ==
    /\ pc = "LeaveScope"
    /\ IF cleanup
         THEN /\ log' = Append(log, Ev("Disconnect", connection, 0, FALSE, ""))
              /\ tstate' = [tstate EXCEPT ![connection] = "disconnected"]
         ELSE /\ log' = log
              /\ tstate' = tstate
    /\ connection' = 0
    /\ IF pending = "continue"
         THEN /\ transport_iter' = transport_iter + 1
              /\ pc' = IF transport_iter + 1 > Len(tempTransports)
                         THEN "Return" ELSE "Connect"
              /\ pending' = "none"
         ELSE /\ transport_iter' = transport_iter
              /\ pc' = "Return"
              /\ pending' = IF pending = "break" THEN "none" ELSE pending
    /\ UNCHANGED <<stopSignalled, adhocIfNeeded, currentTransport, webPort,
                   requestPath, response, port_iter, catalog, tempTransports,
                   success, result>>

\* A clean-up written out at the end of the try block only.
LeaveScopeNoCleanupOnThrow ==
    LeaveScopeWhen(connection # 0 /\ pending \in {"continue", "break"})

\* A clean-up made only when the loop is left.
LeaveScopeNoCleanupOnContinue ==
    LeaveScopeWhen(connection # 0 /\ pending # "continue")

LeaveScope == LeaveScopeWhen(connection # 0)

\* The deletes made when tempTransports goes out of scope, from index k on.
DeleteCallsButLast(ts, k) ==
    [j \in 1..(Len(ts) - k) |-> Ev("delete", ts[j + k - 1], 0, FALSE, "")]

RECURSIVE DeleteCalls(_, _)
DeleteCalls(ts, k) ==
    IF k > Len(ts) THEN <<>>
    ELSE <<Ev("delete", ts[k], 0, FALSE, "")>> \o DeleteCalls(ts, k + 1)

ReturnValueTrue ==
    IF pending = "none" THEN "Success" ELSE Outcome(pending)

\* How the call ends after the loop over candidates: return success, or the
\* exception that is passing through.
ReturnValue ==
    IF pending = "none"
      THEN (IF success THEN "Success" ELSE "Failed")
      ELSE Outcome(pending)

\* return success (or the exception leaves MakeRequest); tempTransports goes
\* out of scope and its auto_ptrs delete the instances they own.
Return ==
    /\ pc = "Return"
    /\ log' = log \o DeleteCalls(tempTransports, 1)
    /\ tstate' = [i \in 1..Len(tstate) |->
                     IF \E k \in 1..Len(tempTransports) : tempTransports[k] = i
                       THEN "deleted" ELSE tstate[i]]
    /\ result' = ReturnValue
    /\ pc' = "done"
    /\ UNCHANGED <<stopSignalled, adhocIfNeeded, currentTransport, webPort,
                   requestPath, response, port_iter, catalog, tempTransports,
                   transport_iter, connection, success, pending>>

Next ==
    \/ SignalStop
    \/ \E adhoc \in BOOLEAN, cur \in CurrentTransports, port \in WebPorts,
          path \in RequestPaths : Enter(adhoc, cur, port, path)
    \/ ConnectedRequest
    \/ DirectRequest
    \/ GetTempTransports
    \/ Connect
    \/ TempRequest
    \/ LeaveScope
    \/ Return

Spec == Init /\ [][Next]_vars

\* A step of the call itself. Each is a call on a collaborator that returns
\* or throws, or code of MakeRequest that runs to the next such call.
CallStep ==
    \/ ConnectedRequest
    \/ DirectRequest
    \/ GetTempTransports
    \/ Connect
    \/ TempRequest
    \/ LeaveScope
    \/ Return

\* The call's thread keeps running, and every blocking call it makes ends.
FairSpec == Spec /\ WF_vars(CallStep)

(***************************************************************************)
(* Properties.                                                             *)
(***************************************************************************)

LogIdx == 1..Len(log)

Instances == 1..Len(catalog)

IsRequest(e) == e.op \in {"RequestViaCurrent", "RequestDirect", "RequestViaTemp"}

\* The requests made so far, in order.
Requests == SelectSeq(log, IsRequest)

\* The positions in the log of the calls op made on instance t.
IdxOf(op, t) == {k \in LogIdx : log[k].op = op /\ log[k].t = t}

\* Connect returned normally on instance t.
WasConnected(t) == \E k \in IdxOf("Connect", t) : log[k].ret = "Connected"

\* The call has been entered and CheckSignal found the signal raised.
SignalledAtEntry == \E k \in LogIdx : log[k].op = "CheckSignal" /\ log[k].flag

\* The call has been entered and CheckSignal found the signal not raised.
EnteredUnsignalled == \E k \in LogIdx : log[k].op = "CheckSignal" /\ ~log[k].flag

\* The transport currentTransport points to exists and is connected.
CurrentIsConnected == currentTransport.present /\ currentTransport.connected

\* Only the entry's own calls have been made: no request, no enumeration of
\* the registry, no connect.
NoIO ==
    /\ \A k \in LogIdx : log[k].op \in {"Signal", "CheckSignal", "IsConnected"}
    /\ catalog = <<>>

\* C1: when the call has returned, every temporary transport that Connect
\* connected has had exactly one Disconnect, made after its Connect, and is
\* not connected, whatever way the call ended.
C1_DisconnectedExactlyOnce ==
    pc = "done" =>
      \A t \in Instances :
        WasConnected(t) =>
          /\ Cardinality(IdxOf("Disconnect", t)) = 1
          /\ \A c \in IdxOf("Connect", t), d \in IdxOf("Disconnect", t) : c < d
          /\ tstate[t] # "connected"

\* Two candidates were connected, the first one's request failed and the
\* second one's request threw.
C1_Witness ==
    /\ pc = "done"
    /\ result \in {"Error", "Cancelled"}
    /\ Cardinality({t \in Instances : WasConnected(t)}) = 2
    /\ Len(Requests) = 4
    /\ Requests[Len(Requests)].ret \in {"Error", "Abort"}

\* C2: at most one transport is connected at any moment; none is connected
\* when the next candidate is about to be connected, during the direct
\* attempts or the connected-transport attempt, or at return.
C2_AtMostOneConnected ==
    /\ Cardinality({t \in Instances : tstate[t] = "connected"}) <= 1
    /\ pc \in {"idle", "ConnectedRequest", "DirectRequest", "GetTempTransports",
               "Connect", "Return", "done"}
         => \A t \in Instances : tstate[t] # "connected"
    /\ \A t \in Instances : tstate[t] = "connected" => connection = t

\* The second candidate is about to be connected after the first one was.
C2_Witness ==
    /\ pc = "Connect"
    /\ transport_iter = Len(tempTransports)
    /\ transport_iter > 1
    /\ WasConnected(tempTransports[1])

\* C3: with a connected currentTransport the call makes exactly one request,
\* through it, at the web port, with its IsServerRequestTunnelled() as the
\* proxy flag, and ends with that request's result; no direct attempt, no
\* enumeration, no connect or disconnect.
C3_ConnectedBranch ==
    (EnteredUnsignalled /\ CurrentIsConnected) =>
      /\ pc \in {"ConnectedRequest", "done"}
      /\ catalog = <<>>
      /\ \A k \in LogIdx : log[k].op \in {"Signal", "CheckSignal", "IsConnected", "RequestViaCurrent"}
      /\ pc = "ConnectedRequest" => Requests = <<>>
      /\ pc = "done" =>
           /\ Len(Requests) = 1
           /\ Requests[1].port = webPort
           /\ Requests[1].flag = currentTransport.tunnelled
           /\ result = Outcome(Requests[1].ret)

\* The connected transport's request returned false and the call returned it.
C3_Witness ==
    /\ pc = "done"
    /\ CurrentIsConnected
    /\ adhocIfNeeded
    /\ Len(Requests) = 1
    /\ Requests[1].ret = "Failed"
    /\ result = "Failed"

\* C4: with no connected currentTransport and adhocIfNeeded false, the call
\* returns false having made no request, no enumeration and no connect.
C4_NoAdhocFails ==
    (EnteredUnsignalled /\ ~CurrentIsConnected /\ ~adhocIfNeeded) =>
      /\ pc = "done"
      /\ result = "Failed"
      /\ NoIO

\* A present but disconnected currentTransport, temporary connections disallowed.
C4_Witness ==
    /\ pc = "done"
    /\ EnteredUnsignalled
    /\ currentTransport.present
    /\ ~currentTransport.connected
    /\ ~adhocIfNeeded
    /\ result = "Failed"

\* C5: Connect is only called on an instance whose IsHandshakeRequired was
\* called before and returned false; an instance that requires a handshake is
\* never connected.
C5_NoHandshakeBeforeConnect ==
    /\ \A k \in LogIdx :
         log[k].op = "Connect" =>
           \E j \in 1..(k - 1) :
             /\ log[j].op = "IsHandshakeRequired"
             /\ log[j].t = log[k].t
             /\ ~log[j].flag
    /\ \A t \in Instances : catalog[t].hs => IdxOf("Connect", t) = {}

\* The registry's first transport requires a handshake, the second one does
\* not and has been connected.
C5_Witness ==
    /\ Len(catalog) > 1
    /\ catalog[1].hs
    /\ WasConnected(Len(catalog))

\* C6: no Connect, Disconnect or delete is made on currentTransport, and its
\* connected state stays what IsConnected() returned on entry.
C6_CurrentTransportUntouched ==
    /\ \A k \in LogIdx :
         log[k].t = 0 => log[k].op \notin {"Connect", "Disconnect", "delete"}
    /\ (EnteredUnsignalled /\ currentTransport.present) =>
         \E k \in LogIdx :
           log[k].op = "IsConnected" /\ log[k].flag = currentTransport.connected

\* The call has returned from the connected branch with the transport still
\* connected.
C6_Witness ==
    /\ pc = "done"
    /\ currentTransport.present
    /\ currentTransport.connected
    /\ Len(Requests) = 1

\* C7: when CheckSignal finds the signal raised on entry, the call ends as
\* cancelled at once, having made no request, no enumeration and no connect,
\* whatever currentTransport and adhocIfNeeded are.
C7_SignalledAtEntry ==
    SignalledAtEntry =>
      /\ pc = "done"
      /\ result = "Cancelled"
      /\ NoIO
      /\ log[Len(log)].op = "CheckSignal"

\* Signalled on entry with a connected currentTransport and temporary
\* connections allowed.
C7_Witness ==
    /\ SignalledAtEntry
    /\ result = "Cancelled"
    /\ CurrentIsConnected
    /\ adhocIfNeeded

\* The stop signal was raised before log position k.
SignalBefore(k) == \E j \in 1..(k - 1) : log[j].op = "Signal"

\* The number of Connect calls made before log position k.
CandidatesTried(k) == Cardinality({j \in 1..(k - 1) : log[j].op = "Connect"})

\* Log position i holds the first direct request and it returned false.
FirstDirectFailedAt(i) ==
    /\ log[i].op = "RequestDirect"
    /\ log[i].ret = "Failed"
    /\ \A j \in 1..(i - 1) : log[j].op # "RequestDirect"

\* The stop signal was raised after the direct request on the web port had
\* returned false and before anything else was done.
SignalledBetweenPorts ==
    \E i \in LogIdx :
      /\ FirstDirectFailedAt(i)
      /\ i + 1 \in LogIdx
      /\ log[i + 1].op = "Signal"

SignalledBetweenCandidatesAt(j) ==
    /\ j > 2
    /\ log[j].op = "Signal"
    /\ log[j - 1].op = "Disconnect"
    /\ log[j - 2].op = "RequestViaTemp"
    /\ log[j - 2].ret = "Failed"
    /\ CandidatesTried(j) < Len(tempTransports)

IsAttempt(e) == IsRequest(e) \/ e.op \in {"NewAll", "Connect"}

Attempts == SelectSeq(log, IsAttempt)

\* The instances on which Connect was called, in order.
ConnectOrder == [k \in 1..Len(SelectSeq(log, LAMBDA e : e.op = "Connect")) |->
                 SelectSeq(log, LAMBDA e : e.op = "Connect")[k].t]

\* C10: with no connected transport and temporary connections allowed, the
\* attempts are, in this order and each only after the one before it failed:
\* the direct request on the web port, the direct request on port 443, the
\* enumeration of the registry, and then for each eligible instance in
\* registry order a Connect followed, if it connected, by one request.
C10_AttemptOrder ==
    (EnteredUnsignalled /\ ~CurrentIsConnected /\ adhocIfNeeded) =>
      LET A == Attempts IN
      /\ Len(A) >= 1 => A[1] = Ev("RequestDirect", 0, webPort, FALSE, A[1].ret)
      /\ Len(A) >= 2 =>
           /\ A[1].ret = "Failed"
           /\ A[2] = Ev("RequestDirect", 0, HttpsPort, FALSE, A[2].ret)
      /\ Len(A) >= 3 =>
           /\ A[2].ret = "Failed"
           /\ A[3].op = "NewAll"
      /\ \A k \in 4..Len(A) :
           /\ A[k].op \in {"Connect", "RequestViaTemp"}
           /\ A[k].op = "RequestViaTemp" =>
                /\ A[k - 1].op = "Connect"
                /\ A[k - 1].t = A[k].t
                /\ A[k - 1].ret = "Connected"
           /\ A[k].op = "Connect" =>
                \/ A[k - 1].op = "NewAll"
                \/ A[k - 1].op = "Connect" /\ A[k - 1].ret = "TryNextServer"
                \/ A[k - 1].op = "RequestViaTemp" /\ A[k - 1].ret = "Failed"
      /\ Len(ConnectOrder) <= Len(EligibleIds(catalog))
      /\ \A k \in 1..Len(ConnectOrder) : ConnectOrder[k] = EligibleIds(catalog)[k]

\* Both direct requests failed (web port 8080, then 443), two instances were
\* eligible, the first one failed to connect, the second one connected and
\* its request succeeded.
C10_Witness ==
    /\ pc = "done"
    /\ EnteredUnsignalled
    /\ webPort = DefaultWebPort
    /\ Len(ConnectOrder) = 2
    /\ Len(Requests) = 3
    /\ Requests[3].op = "RequestViaTemp"
    /\ Requests[3].t = EligibleIds(catalog)[2]
    /\ result = "Success"

\* The direct requests made so far, in order.
DirectRequests == SelectSeq(log, LAMBDA e : e.op = "RequestDirect")

\* The registry has been enumerated.
Enumerated == \E k \in LogIdx : log[k].op = "NewAll"

\* C11: no port is tried twice by the direct requests of one call: at most
\* two direct requests are made, on different ports, and with web port 443
\* exactly one has been made when the registry is enumerated.
C11_NoPortTriedTwice ==
    /\ Len(DirectRequests) <= 2
    /\ \A i, j \in 1..Len(DirectRequests) :
         i # j => DirectRequests[i].port # DirectRequests[j].port
    /\ (pc # "idle" /\ webPort = HttpsPort /\ Enumerated) => Len(DirectRequests) = 1

\* C12: once a request has returned true, no further request, enumeration or
\* connect is made, the response is that request's, and the call returns
\* true; when it was a direct request, the registry is never enumerated and
\* no transport is connected.
C12_FirstSuccessWins ==
    \A k \in LogIdx :
      (IsRequest(log[k]) /\ log[k].ret = "Success") =>
        /\ \A m \in (k + 1)..Len(log) : log[m].op \in {"Signal", "Disconnect", "delete"}
        /\ response = k
        /\ pc = "done" => result = "Success"
        /\ log[k].op = "RequestDirect" =>
             /\ catalog = <<>>
             /\ \A m \in LogIdx : log[m].op \notin {"NewAll", "Connect"}

\* The request through the first of two candidates succeeded; the second
\* candidate was never connected and the call returned true.
C12_Witness ==
    /\ pc = "done"
    /\ result = "Success"
    /\ Len(tempTransports) = 2
    /\ Len(ConnectOrder) = 1
    /\ WasConnected(tempTransports[1])
    /\ response # 0
    /\ log[response].op = "RequestViaTemp"

\* C13, as claimed: when the request through a connected candidate throws an
\* error other than the stop signal's abort, the candidate is disconnected,
\* the loop goes on to the next candidate if there is one, and the call
\* returns true or false.
C13_RequestErrorAbsorbed ==
    \A k \in LogIdx :
      (log[k].op = "RequestViaTemp" /\ log[k].ret = "Error" /\ pc = "done") =>
        /\ IdxOf("Disconnect", log[k].t) # {}
        /\ result \in {"Success", "Failed"}
        /\ CandidatesTried(k) < Len(tempTransports) =>
             \E m \in (k + 1)..Len(log) : log[m].op = "Connect"

\* C14, as claimed: a call with an empty request path makes no request, no
\* enumeration of the registry and no connect.
C14_EmptyPathRejected ==
    (pc # "idle" /\ requestPath = "") => NoIO

\* C14, amended: an empty request path is not rejected (the assert only
\* requires a non-null pointer). A call with an empty path goes the way of
\* any other: one request through a connected currentTransport; false without
\* any request when none is connected and adhocIfNeeded is false; the direct
\* requests otherwise.
C14_EmptyPathNotChecked ==
    (EnteredUnsignalled /\ requestPath = "") =>
      /\ result # "Misuse"
      /\ CurrentIsConnected =>
           \/ pc = "ConnectedRequest" /\ Len(Requests) = 0
           \/ pc = "done" /\ Len(Requests) = 1
      /\ (~CurrentIsConnected /\ ~adhocIfNeeded) =>
           pc = "done" /\ result = "Failed" /\ NoIO
      /\ (~CurrentIsConnected /\ adhocIfNeeded) =>
           \/ pc = "DirectRequest" /\ port_iter = 1 /\ Len(Requests) = 0
           \/ Len(Requests) >= 1 /\ Requests[1].op = "RequestDirect"

\* A call with an empty path whose second direct request succeeded.
C14_Witness ==
    /\ requestPath = ""
    /\ pc = "done"
    /\ Len(Requests) = 2
    /\ Requests[2].op = "RequestDirect"
    /\ result = "Success"

\* The positions after k of the attempts made after log position k.
AttemptsAfter(k) == {m \in (k + 1)..Len(log) : IsAttempt(log[m])}

\* C16: when Connect on a candidate fails (throws TryNextServer), no request
\* is made through that candidate, the next attempt is the Connect on the
\* next candidate in order, and the failure does not leave the call: after
\* the last candidate the call returns false, and the call only ends with an
\* error that a collaborator threw as such.
C16_ConnectFailureMovesOn ==
    /\ \A k \in LogIdx :
         (log[k].op = "Connect" /\ log[k].ret = "TryNextServer") =>
           LET n == CandidatesTried(k) + 1
               after == AttemptsAfter(k)
           IN  /\ tempTransports[n] = log[k].t
               /\ IdxOf("RequestViaTemp", log[k].t) = {}
               /\ IF n < Len(tempTransports)
                    THEN IF after = {}
                           THEN pc \in {"LeaveScope", "Connect"}
                           ELSE LET m == CHOOSE x \in after : \A y \in after : x <= y
                                IN  /\ log[m].op = "Connect"
                                    /\ log[m].t = tempTransports[n + 1]
                    ELSE /\ after = {}
                         /\ pc = "done" => result = "Failed"
    /\ (pc = "done" /\ result = "Error") => \E m \in LogIdx : log[m].ret = "Error"

\* The first candidate failed to connect, the second one connected and its
\* request returned false: the call returned false.
C16_Witness ==
    /\ pc = "done"
    /\ result = "Failed"
    /\ Len(ConnectOrder) = 2
    /\ \E k \in IdxOf("Connect", tempTransports[1]) : log[k].ret = "TryNextServer"
    /\ WasConnected(tempTransports[2])
    /\ Len(Requests) = 3

\* Every request made has returned false and every Connect has returned or
\* thrown TryNextServer.
AllFailed ==
    /\ \A k \in LogIdx : IsRequest(log[k]) => log[k].ret = "Failed"
    /\ \A k \in LogIdx : log[k].op = "Connect" => log[k].ret \in {"Connected", "TryNextServer"}

\* C17: a call that has been entered ends, provided each of its steps ends.
\* Connect is called at most once on each instance, the requests made number
\* at most the two direct ports plus the eligible instances, and a call in
\* which every direct request and every candidate failed (or no instance was
\* eligible) returns false.
C17_Terminates ==
    /\ [](/\ \A t \in Instances : Cardinality(IdxOf("Connect", t)) <= 1
          /\ Len(Requests) <= 2 + Len(tempTransports)
          /\ Len(ConnectOrder) <= Len(tempTransports)
          /\ (pc = "done" /\ Enumerated /\ AllFailed) => result = "Failed")
    /\ (pc # "idle") ~> (pc = "done")

\* Both direct requests failed and no instance of the registry was eligible:
\* the call returned false.
C17_Witness ==
    /\ pc = "done"
    /\ Enumerated
    /\ Len(catalog) = 2
    /\ tempTransports = <<>>
    /\ result = "Failed"

\* C18: every direct request is made with the proxy flag false; every request
\* over a temporary transport is made on the web port of sessionInfo, with
\* the flag that instance's IsServerRequestTunnelled() gives, after Connect
\* returned on it; and once the request on a connected instance has returned
\* or thrown, exactly one request has been made on it.
C18_AttemptParameters ==
    /\ \A k \in LogIdx : log[k].op = "RequestDirect" => log[k].flag = FALSE
    /\ \A k \in LogIdx :
         log[k].op = "RequestViaTemp" =>
           /\ log[k].port = webPort
           /\ log[k].flag = catalog[log[k].t].tunnelled
           /\ \E c \in IdxOf("Connect", log[k].t) : c < k /\ log[c].ret = "Connected"
    /\ \A t \in Instances :
         /\ Cardinality(IdxOf("RequestViaTemp", t)) <= 1
         /\ (WasConnected(t) /\ ~(pc = "TempRequest" /\ connection = t)) =>
              Cardinality(IdxOf("RequestViaTemp", t)) = 1

\* A direct request was made on port 443 and, later, a request over a
\* temporary transport that is not tunnelled on a web port other than 443.
C18_Witness ==
    /\ webPort # HttpsPort
    /\ \E d, k \in LogIdx :
         /\ d < k
         /\ log[d].op = "RequestDirect" /\ log[d].port = HttpsPort
         /\ log[k].op = "RequestViaTemp" /\ ~catalog[log[k].t].tunnelled
         /\ log[k].port = webPort

\* The ids of cat from i on whose instance does not require a handshake, in
\* registry order.
RECURSIVE NoHandshakeFrom(_, _)
NoHandshakeFrom(cat, i) ==
    IF i > Len(cat) THEN <<>>
    ELSE (IF cat[i].hs THEN <<>> ELSE <<i>>) \o NoHandshakeFrom(cat, i + 1)

\* The positions in the log of the deletes of instance t.
Deletes(t) == IdxOf("delete", t)

\* The position in the log of the last call GetTempTransports made.
FilterEnd ==
    LET f == {k \in LogIdx : log[k].op \in {"NewAll", "IsHandshakeRequired"}}
    IN  CHOOSE k \in f : \A j \in f : j <= k

C20_CurrentTypeNotTried ==
    (currentTransport.present /\ ~currentTransport.connected) =>
      \A k \in LogIdx : log[k].op = "Connect" => log[k].t # currentTransport.type

====
